---- MODULE Spec2Model ----
(***************************************************************************)
(* Model of the Grad Cafe list-view scraper (module_6/src/scrape.py), of   *)
(* its incremental variant (module_6/src/incremental_scraper.py) and of    *)
(* the pipeline routes of the web application (module_6/src/flask_app.py). *)
(*                                                                         *)
(*   SpecFetch  GradCafeListScraper._make_request, one attempt per step    *)
(*   SpecParse  GradCafeListScraper._parse_list_page, one row-group a step *)
(*   SpecCrawl  GradCafeListScraper.scrape_data, one page per step         *)
(*   SpecIncr   IncrementalGradCafeScraper.scrape_new_data_only            *)
(*   SpecEntry  _parse_list_page on pages of one row-group, every part of  *)
(*              the group varied                                           *)
(*   SpecCrawls either crawl                                               *)
(*   SpecCheckpoint scrape_data over 60 pages, one page a step             *)
(*   SpecScraper GradCafeListScraper.__init__ with its robots check, then  *)
(*              a crawl                                                    *)
(*   SpecApp    POST /pull-data, POST /update-analysis and the threads of  *)
(*              run_data_pipeline, one statement group a step              *)
(***************************************************************************)
EXTENDS Integers, Sequences, FiniteSets, TLC

VARIABLES
    \* ---- _make_request ----
    fScript,      \* what the server will answer, attempt by attempt
    fRetry,       \* parameter retry_count
    fAttempt,     \* loop variable attempt
    fPc,          \* "loop" | "returned"
    fResult,      \* return value (None or the response body)
    fRequests,    \* number of self.http.request calls made
    fSleeps,      \* arguments of the time.sleep calls, in order
    fLog          \* per attempt: did the call end right after it, did it sleep

VARIABLES
    \* ---- _parse_list_page ----
    pRows,        \* rows = tbody.find_all("tr")
    pI,           \* loop index i (0-based, as in the source)
    pPc,          \* "loop" | "returned" | "raised"
    pResults,     \* results
    pGroups       \* the row-groups formed so far: indices of main/detail/comment

VARIABLES
    \* ---- scrape_data ----
    cArg,         \* parameter max_pages as passed: <<>> for None, else <<n>>
    cDiscovery,   \* the _get_total_pages calls made, with what they returned
    cMaxPages,    \* max_pages once resolved
    cTarget,      \* parameter target_entries
    cPage,        \* page
    cEmpty,       \* consecutive_empty_pages
    cResults,     \* all_results
    cPc,          \* "start" | "loop" | "returned" | "raised"
    cSaved,       \* save_data checkpoints: page index and entries saved
    cLog,         \* one record per listing page requested
    cServer       \* the pages lo..hi answer in any way, the others with PageOld

VARIABLES
    \* ---- scrape_new_data_only ----
    iDb,          \* the database as get_latest_database_date finds it
    iMaxPages,    \* parameter max_pages
    iLatest,      \* self.latest_db_date
    iPage,        \* page
    iOld,         \* consecutive_old_pages
    iResults,     \* new_results
    iPc,          \* "start" | "loop" | "returned" | "raised"
    iLog          \* one record per listing page requested

VARIABLES
    \* ---- GradCafeListScraper.__init__ ----
    rRobots,      \* what reading and asking the robots policy will do
    rPc,          \* "new" | "constructed" | "raised"
    rChecks,      \* number of _check_robots_txt calls made
    rAllowed      \* what _check_robots_txt returned (None before)

VARIABLES
    \* ---- flask_app ----
    aScraper,     \* flask_app.scraper: "none" or what its scrape() does
    aStatus,      \* scraping_status
    aRuns,        \* the run_data_pipeline threads started, in order
    aReplies      \* the answers given to the POST requests, in order

fvars == <<fScript, fRetry, fAttempt, fPc, fResult, fRequests, fSleeps, fLog>>
pvars == <<pRows, pI, pPc, pResults, pGroups>>
cvars == <<cArg, cDiscovery, cMaxPages, cTarget, cPage, cEmpty, cResults, cPc,
           cSaved, cLog, cServer>>
ivars == <<iDb, iMaxPages, iLatest, iPage, iOld, iResults, iPc, iLog>>

rvars == <<rRobots, rPc, rChecks, rAllowed>>
avars == <<aScraper, aStatus, aRuns, aReplies>>

vars == <<fvars, pvars, cvars, ivars, rvars, avars>>

----------------------------------------------------------------------------
(* Bounds *)

MaxRetry == 3          \* largest retry_count explored (the default is 3)
MaxScript == 4         \* length of the scripted server behaviour
MaxRows == 4           \* most table rows on a page given to the parser
MaxPages == 6          \* largest max_pages a crawl is started with

----------------------------------------------------------------------------
(* Values *)

\* Python's None
None == "None"

\* Python truthiness of an Optional[str]
Truthy(s) == s /= None /\ s /= ""

RECURSIVE Pow2(_)
Pow2(n) == IF n = 0 THEN 1 ELSE 2 * Pow2(n - 1)

\* Sequences over S of length exactly n
SeqsOfLen(S, n) == [1..n -> S]

\* Sequences over S of length at most n
SeqsUpTo(S, n) == UNION {SeqsOfLen(S, k) : k \in 0..n}

----------------------------------------------------------------------------
(* Each specification runs one operation; the others' variables stay idle. *)

FetchIdle ==
    /\ fScript = <<>>
    /\ fRetry = 0
    /\ fAttempt = 0
    /\ fPc = "idle"
    /\ fResult = None
    /\ fRequests = 0
    /\ fSleeps = <<>>
    /\ fLog = <<>>

ParseIdle ==
    /\ pRows = <<>>
    /\ pI = 0
    /\ pPc = "idle"
    /\ pResults = <<>>
    /\ pGroups = <<>>

\* a date; NoDate stands for None
Date(y, m, d) == [y |-> y, m |-> m, d |-> d]
NoDate == Date(0, 0, 0)

CrawlIdle ==
    /\ cArg = <<0>>
    /\ cDiscovery = <<>>
    /\ cMaxPages = 0
    /\ cTarget = 0
    /\ cPage = 0
    /\ cEmpty = 0
    /\ cResults = <<>>
    /\ cPc = "idle"
    /\ cSaved = <<>>
    /\ cLog = <<>>
    /\ cServer = [lo |-> 0, hi |-> 0]

RobotsIdle ==
    /\ rRobots = [read |-> "ok", can_fetch |-> TRUE]
    /\ rPc = "idle"
    /\ rChecks = 0
    /\ rAllowed = None

\* The module-level scraping_status dictionary
InitialStatus ==
    [is_running |-> FALSE, progress |-> "", last_update |-> None,
     error |-> None]

AppIdle ==
    /\ aScraper = "none"
    /\ aStatus = InitialStatus
    /\ aRuns = <<>>
    /\ aReplies = <<>>

IncrIdle ==
    /\ iDb = [error |-> FALSE, max |-> NoDate]
    /\ iMaxPages = 0
    /\ iLatest = NoDate
    /\ iPage = 0
    /\ iOld = 0
    /\ iResults = <<>>
    /\ iPc = "idle"
    /\ iLog = <<>>

----------------------------------------------------------------------------
(* Page rows and entries *)

\* The text of a date cell, by the strptime format it is written in:
\* "%B %d, %Y", "%b %d, %Y", "%m/%d/%Y", "%Y-%m-%d"; shape "" is the empty
\* string and shape "text" any other non-empty text.
DateText(shape, y, m, d) == [shape |-> shape, y |-> y, m |-> m, d |-> d]
EmptyText == DateText("", 0, 0, 0)
OtherText == DateText("text", 0, 0, 0)

\* The text of a status block: a word in some casing, then " on <date>" or
\* nothing.  base names the word (a key of Spellings); "" is the empty
\* text.
StatusText(base, style, on) == [base |-> base, style |-> style, on |-> on]
EmptyStatus == StatusText("", "lower", "")

\* The text of a badge: a head, then " <num>" or nothing.
Badge(head, num) == [head |-> head, num |-> num]

\* A <tr>: th = it holds a <th>; ntd = number of <td> cells; marker = class
\* "tw-border-none"; para = it holds <p class="tw-text-gray-500">; school =
\* text of cells[0]; div = cells[1] holds div.tw-text-gray-900; spans = the
\* texts of that div's spans; date = text of cells[2].  The remaining parts
\* are absent unless set: sdiv = cells[3] holds the status block and stext
\* is its text; href = the href of the row's /result/<id> link ("" for no
\* such link); badges = the texts of the row's badge blocks; ctext = the
\* text of the row's <p class="tw-text-gray-500">.
Tr(th, ntd, marker, para, school, div, spans, date) ==
    [th |-> th, ntd |-> ntd, marker |-> marker, para |-> para,
     school |-> school, div |-> div, spans |-> spans, date |-> date,
     sdiv |-> FALSE, stext |-> EmptyStatus, href |-> "", badges |-> <<>>,
     ctext |-> ""]

\* detail_row=None, comment_row=None
NoTag == [tag |-> FALSE]

HeaderRow == Tr(TRUE, 0, FALSE, FALSE, "", FALSE, <<>>, EmptyText)
ShortRow == Tr(FALSE, 3, FALSE, FALSE, "MIT", TRUE, <<"CS">>, EmptyText)
DetailRow == Tr(FALSE, 1, TRUE, FALSE, "", FALSE, <<>>, EmptyText)
CommentRow == Tr(FALSE, 1, TRUE, TRUE, "", FALSE, <<>>, EmptyText)
MainRow(school, spans, date) ==
    Tr(FALSE, 4, FALSE, FALSE, school, TRUE, spans, date)
\* a marker row that itself has four cells
WideDetailRow ==
    Tr(FALSE, 4, TRUE, FALSE, "UCLA", TRUE, <<"Math", "MS">>, OtherText)

Sep20 == DateText("%B %d, %Y", 2025, 9, 20)
Sep10 == DateText("%b %d, %Y", 2025, 9, 10)

SampleRows ==
    {HeaderRow, ShortRow, DetailRow, CommentRow, WideDetailRow,
     MainRow("MIT", <<"CS", "PhD">>, Sep20),
     MainRow("", <<"CS">>, Sep10),
     Tr(TRUE, 4, FALSE, FALSE, "CMU", FALSE, <<>>, Sep10)}

\* Python's 0-based rows[k]
Row(rows, k) == rows[k + 1]

NoRow == -1

----------------------------------------------------------------------------
(* _parse_list_entry and its helpers *)

NoEntry == [none |-> TRUE]

\* _extract_basic_info that takes the program from the school alone
ExtractBasicInfoSchoolOnly(main) ==
    LET school == main.school
        major == IF main.div /\ main.spans /= <<>> THEN main.spans[1] ELSE None
        degree == IF main.div /\ Len(main.spans) > 1
                  THEN main.spans[Len(main.spans)] ELSE None
    IN  IF major = None
        THEN [raised |-> TRUE]
        ELSE [raised |-> FALSE, school |-> school, major |-> major,
              degree |-> degree,
              program |-> IF school /= "" THEN school ELSE None]

\* _extract_basic_info: school, major, degree, program.  With no label block
\* or no span the major is None and None.strip() raises AttributeError.
ExtractBasicInfo(main) ==
    LET school == main.school
        major == IF main.div /\ main.spans /= <<>> THEN main.spans[1] ELSE None
        degree == IF main.div /\ Len(main.spans) > 1
                  THEN main.spans[Len(main.spans)] ELSE None
    IN  IF major = None
        THEN [raised |-> TRUE]
        ELSE [raised |-> FALSE, school |-> school, major |-> major,
              degree |-> degree,
              program |-> IF major /= "" /\ school /= ""
                          THEN major \o ", " \o school
                          ELSE IF major /= "" THEN major
                          ELSE IF school /= "" THEN school
                          ELSE None]

\* The spellings of a word: lower case, str.capitalize(), upper case
Spellings ==
    [accepted |-> <<"accepted", "Accepted", "ACCEPTED">>,
     rejected |-> <<"rejected", "Rejected", "REJECTED">>,
     interview |-> <<"interview", "Interview", "INTERVIEW">>,
     waitlisted |-> <<"waitlisted", "Waitlisted", "WAITLISTED">>,
     waitSpaceListed |-> <<"wait listed", "Wait listed", "WAIT LISTED">>,
     waiting |-> <<"waiting", "Waiting", "WAITING">>,
     pending |-> <<"pending", "Pending", "PENDING">>,
     international |-> <<"international", "International", "INTERNATIONAL">>,
     american |-> <<"american", "American", "AMERICAN">>]

Spelled(base, style) ==
    IF base = "" THEN ""
    ELSE Spellings[base][CASE style = "lower" -> 1
                           [] style = "title" -> 2
                           [] style = "upper" -> 3]

\* status_div.get_text(strip=True)
StatusString(st) ==
    Spelled(st.base, st.style) \o (IF st.on = "" THEN "" ELSE " on " \o st.on)

\* The alternatives of the status pattern, matched with re.I
StatusWords == {"accepted", "rejected", "interview", "waitSpaceListed", "waitlisted"}

\* "wait" in status.lower()
ContainsWait(base) == base \in {"waitlisted", "waitSpaceListed", "waiting"}

\* _extract_status_from_cells: date_added always; status and status_date
\* only when cells[3] holds the status block.
ExtractStatusFromCells(main) ==
    [date_added |-> main.date]
    @@ (IF ~main.sdiv THEN <<>>
        ELSE IF main.stext.base \in StatusWords /\ main.stext.on /= ""
        THEN [status |-> IF ContainsWait(main.stext.base)
                         THEN "Waitlisted"
                         ELSE Spelled(main.stext.base, "title"),
              status_date |-> main.stext.on]
        ELSE [status |-> StatusString(main.stext), status_date |-> None])

\* badge.get_text(strip=True)
BadgeString(b) == b.head \o (IF b.num = "" THEN "" ELSE " " \o b.num)

Seasons == {"Fall", "Spring", "Summer", "Winter"}
Years == {"2025", "2026"}
ApplicantTypes == {"international", "american"}
\* numbers a badge may carry, with the leading run of digits of each
Numbers == [n \in {"2025", "2026", "335", "165", "170", "3.85", "4.5"} |->
               CASE n = "3.85" -> "3" [] n = "4.5" -> "4" [] OTHER -> n]
IsDecimal(n) == n \in DOMAIN Numbers /\ Numbers[n] /= n

\* _extract_gre_from_badge
ExtractGreFromBadge(b) ==
    IF b.num \notin DOMAIN Numbers THEN <<>>
    ELSE IF b.head = "GRE V" THEN [gre_verbal |-> Numbers[b.num]]
    ELSE IF b.head = "GRE Q" THEN [gre_quant |-> Numbers[b.num]]
    ELSE IF b.head = "GRE AW" THEN [gre_aw |-> b.num]
    ELSE [gre_total |-> Numbers[b.num]]

\* _extract_badge_info
ExtractBadgeInfo(b) ==
    IF b.head \in Seasons /\ b.num \in Years
    THEN [semester |-> BadgeString(b)]
    ELSE IF b.num = "" /\ \E a \in ApplicantTypes :
                              \E k \in 1..3 : Spellings[a][k] = b.head
    THEN [applicant_type |->
             Spellings[CHOOSE a \in ApplicantTypes :
                          \E k \in 1..3 : Spellings[a][k] = b.head][2]]
    ELSE IF b.head = "GPA"
    THEN (IF IsDecimal(b.num) THEN [gpa |-> b.num] ELSE <<>>)
    ELSE IF b.head \in {"GRE", "GRE V", "GRE Q", "GRE AW"}
    THEN ExtractGreFromBadge(b)
    ELSE <<>>

\* "for badge in badges: result.update(self._extract_badge_info(badge_text))"
RECURSIVE UpdateFromBadges(_, _)
UpdateFromBadges(result, badges) ==
    IF badges = <<>> THEN result
    ELSE UpdateFromBadges(ExtractBadgeInfo(Head(badges)) @@ result,
                          Tail(badges))

\* self.base_url
BaseUrl == "https://www.thegradcafe.com"

\* "Set defaults for missing fields"
DefaultFields ==
    {"semester", "applicant_type", "gpa", "gre_total", "gre_verbal",
     "gre_quant", "gre_aw", "comments"}

\* _parse_list_entry without its except clause
ParseListEntryUncaught(main, detail, comment) ==
    IF main.ntd < 4
    THEN NoEntry
    ELSE LET b == ExtractBasicInfo(main)
             basic == [school |-> b.school, major |-> b.major,
                       degree |-> b.degree, program |-> b.program]
             withStatus == ExtractStatusFromCells(main) @@ basic
             withUrl == (IF main.href /= ""
                         THEN [url |-> BaseUrl \o main.href] ELSE <<>>)
                        @@ withStatus
             withBadges == IF detail = NoTag THEN withUrl
                           ELSE UpdateFromBadges(withUrl, detail.badges)
             withComments == (IF comment /= NoTag /\ comment.para
                              THEN [comments |-> comment.ctext] ELSE <<>>)
                             @@ withBadges
         IN  IF b.raised
             THEN [none |-> TRUE, raised |-> TRUE]
             ELSE [none |-> FALSE] @@ withComments
                  @@ [f \in DefaultFields |-> None]

\* _parse_list_entry: None for a main row of fewer than 4 cells or when a
\* helper raises; else the entry dict.  The field none tells the two apart
\* and is not a key of the dict.
ParseListEntry(main, detail, comment) ==
    IF main.ntd < 4
    THEN NoEntry
    ELSE LET b == ExtractBasicInfo(main)
             basic == [school |-> b.school, major |-> b.major,
                       degree |-> b.degree, program |-> b.program]
             withStatus == ExtractStatusFromCells(main) @@ basic
             withUrl == (IF main.href /= ""
                         THEN [url |-> BaseUrl \o main.href] ELSE <<>>)
                        @@ withStatus
             withBadges == IF detail = NoTag THEN withUrl
                           ELSE UpdateFromBadges(withUrl, detail.badges)
             withComments == (IF comment /= NoTag /\ comment.para
                              THEN [comments |-> comment.ctext] ELSE <<>>)
                             @@ withBadges
         IN  IF b.raised
             THEN NoEntry
             ELSE [none |-> FALSE] @@ withComments
                  @@ [f \in DefaultFields |-> None]

----------------------------------------------------------------------------
(* _parse_list_page *)

\* GetDetailRow that leaves a marker row with the comment paragraph alone
GetDetailRowNotComment(rows, index) ==
    IF index + 1 >= Len(rows)
    THEN [row |-> NoRow, index |-> index]
    ELSE IF Row(rows, index + 1).marker /\ ~Row(rows, index + 1).para
    THEN [row |-> index + 1, index |-> index + 1]
    ELSE [row |-> NoRow, index |-> index]

\* GetDetailRow that takes the detail row without advancing the index
GetDetailRowNoAdvance(rows, index) ==
    IF index + 1 >= Len(rows)
    THEN [row |-> NoRow, index |-> index]
    ELSE IF Row(rows, index + 1).marker
    THEN [row |-> index + 1, index |-> index]
    ELSE [row |-> NoRow, index |-> index]

\* _get_detail_row(rows, index): (detail row or None, new index)
GetDetailRow(rows, index) ==
    IF index + 1 >= Len(rows)
    THEN [row |-> NoRow, index |-> index]
    ELSE IF Row(rows, index + 1).marker
    THEN [row |-> index + 1, index |-> index + 1]
    ELSE [row |-> NoRow, index |-> index]

\* _get_comment_row(rows, index): (comment row or None, new index)
GetCommentRow(rows, index) ==
    IF index + 1 >= Len(rows)
    THEN [row |-> NoRow, index |-> index]
    ELSE IF ~Row(rows, index + 1).marker
    THEN [row |-> NoRow, index |-> index]
    ELSE IF Row(rows, index + 1).para
    THEN [row |-> index + 1, index |-> index + 1]
    ELSE [row |-> NoRow, index |-> index]

\* "Skip header rows": a row with a <th> and no <td>
IsHeader(row) == row.th /\ row.ntd = 0

\* len(cells) < 4
IsShort(row) == row.ntd < 4

\* The call of _parse_list_entry ended in an exception it does not catch;
\* neither _parse_list_page nor the crawls catch it.
Propagates(e) == e.none /\ "raised" \in DOMAIN e

\* KeptByPage without the test of the school
KeptByPageAnySchool(e) == ~e.none

\* "if result and result.get('school'): results.append(result)"
KeptByPage(e) == (~e.none) /\ e.school /= ""

\* GroupAt that gives up the rest of the page when the entry fails
GroupAtAbortOnFailure(rows, i) ==
    LET d == GetDetailRow(rows, i)
        c == GetCommentRow(rows, d.index)
        e == ParseListEntry(Row(rows, i),
                            IF d.row = NoRow THEN NoTag ELSE Row(rows, d.row),
                            IF c.row = NoRow THEN NoTag ELSE Row(rows, c.row))
    IN  [main |-> i, detail |-> d.row, comment |-> c.row,
         last |-> IF e.none THEN Len(rows) - 1 ELSE c.index,
         entry |-> e,
         kept |-> KeptByPage(e),
         raised |-> Propagates(e)]

\* Lines 439-447 at index i: the group formed, the entry parsed from it,
\* whether it is appended, and the index of the last row consumed.
GroupAt(rows, i) ==
    LET d == GetDetailRow(rows, i)
        c == GetCommentRow(rows, d.index)
        e == ParseListEntry(Row(rows, i),
                            IF d.row = NoRow THEN NoTag ELSE Row(rows, d.row),
                            IF c.row = NoRow THEN NoTag ELSE Row(rows, c.row))
    IN  [main |-> i, detail |-> d.row, comment |-> c.row, last |-> c.index,
         entry |-> e,
         kept |-> KeptByPage(e),
         raised |-> Propagates(e)]

\* The while loop from index i on, as a function: the entries appended.
RECURSIVE ParseRowsFrom(_, _)
ParseRowsFrom(rows, i) ==
    IF i >= Len(rows) THEN <<>>
    ELSE IF IsHeader(Row(rows, i)) THEN ParseRowsFrom(rows, i + 1)
    ELSE IF IsShort(Row(rows, i)) THEN ParseRowsFrom(rows, i + 1)
    ELSE LET g == GroupAt(rows, i)
         IN  (IF g.kept THEN <<g.entry>> ELSE <<>>)
                 \o ParseRowsFrom(rows, g.last + 1)

\* The while loop from index i on raises: some call of _parse_list_entry
\* in it ends in an exception that is not caught.
RECURSIVE ParseRaisesFrom(_, _)
ParseRaisesFrom(rows, i) ==
    IF i >= Len(rows) THEN FALSE
    ELSE IF IsHeader(Row(rows, i)) THEN ParseRaisesFrom(rows, i + 1)
    ELSE IF IsShort(Row(rows, i)) THEN ParseRaisesFrom(rows, i + 1)
    ELSE LET g == GroupAt(rows, i)
         IN  g.raised \/ ParseRaisesFrom(rows, g.last + 1)

InitParse ==
    /\ FetchIdle /\ CrawlIdle /\ IncrIdle
    /\ RobotsIdle /\ AppIdle
    /\ pRows \in SeqsUpTo(SampleRows, MaxRows)
    /\ pI = 0
    /\ pPc = "loop"
    /\ pResults = <<>>
    /\ pGroups = <<>>

\* "if row.find('th') and not row.find('td'): i += 1; continue"
ParseSkipHeader ==
    /\ pPc = "loop"
    /\ pI < Len(pRows)
    /\ IsHeader(Row(pRows, pI))
    /\ pI' = pI + 1
    /\ UNCHANGED <<pRows, pPc, pResults, pGroups>>
    /\ UNCHANGED <<fvars, cvars, ivars, rvars, avars>>

\* "if len(cells) < 4: i += 1; continue"
ParseSkipShort ==
    /\ pPc = "loop"
    /\ pI < Len(pRows)
    /\ ~IsHeader(Row(pRows, pI))
    /\ IsShort(Row(pRows, pI))
    /\ pI' = pI + 1
    /\ UNCHANGED <<pRows, pPc, pResults, pGroups>>
    /\ UNCHANGED <<fvars, cvars, ivars, rvars, avars>>

\* A main row: absorb the detail and comment rows, parse, append, advance.
ParseGroup ==
    /\ pPc = "loop"
    /\ pI < Len(pRows)
    /\ ~IsHeader(Row(pRows, pI))
    /\ ~IsShort(Row(pRows, pI))
    /\ LET g == GroupAt(pRows, pI)
       IN  /\ pGroups' = Append(pGroups, [main |-> g.main, detail |-> g.detail,
                                           comment |-> g.comment, kept |-> g.kept])
           /\ pResults' = IF g.kept THEN Append(pResults, g.entry) ELSE pResults
           /\ pI' = g.last + 1
           /\ pPc' = IF g.raised THEN "raised" ELSE pPc
    /\ UNCHANGED pRows
    /\ UNCHANGED <<fvars, cvars, ivars, rvars, avars>>

\* "while i < len(rows)" ends: return results
ParseReturn ==
    /\ pPc = "loop"
    /\ pI >= Len(pRows)
    /\ pPc' = "returned"
    /\ UNCHANGED <<pRows, pI, pResults, pGroups>>
    /\ UNCHANGED <<fvars, cvars, ivars, rvars, avars>>

NextParse == ParseSkipHeader \/ ParseSkipShort \/ ParseGroup \/ ParseReturn

SpecParse == InitParse /\ [][NextParse]_vars

----------------------------------------------------------------------------
(* _parse_list_page on a page of one row-group (SpecEntry) *)

\* A main row of four cells with every part of it given
FullMainRow(school, label, date, status, href) ==
    [Tr(FALSE, 4, FALSE, FALSE, school, label.div, label.spans, date)
        EXCEPT !.sdiv = status.sdiv, !.stext = status.stext, !.href = href]

\* cells[1]: no label block, a block without spans, with one, with two
Labels ==
    {[div |-> FALSE, spans |-> <<>>], [div |-> TRUE, spans |-> <<>>],
     [div |-> TRUE, spans |-> <<"">>], [div |-> TRUE, spans |-> <<"CS">>],
     [div |-> TRUE, spans |-> <<"CS", "PhD">>]}

\* cells[3]: no status block, or a block with some text
Statuses ==
    {[sdiv |-> FALSE, stext |-> EmptyStatus], [sdiv |-> TRUE, stext |-> EmptyStatus]}
    \cup {[sdiv |-> TRUE, stext |-> StatusText(b, c, on)] :
             b \in {"accepted", "waitlisted", "waitSpaceListed", "pending"},
             c \in {"lower", "title", "upper"},
             on \in {"", "15 Mar"}}

MainRows ==
    {FullMainRow(school, label, date, status, href) :
        school \in {"MIT", ""}, label \in Labels, date \in {Sep20, EmptyText},
        status \in Statuses, href \in {"", "/result/123"}}

BadgeRow(badges) == [DetailRow EXCEPT !.badges = badges]
ParaRow(text) == [CommentRow EXCEPT !.ctext = text]

\* what follows the main row: nothing, a detail row, a comment row, both
Tails ==
    {<<>>,
     <<BadgeRow(<<>>)>>,
     <<BadgeRow(<<Badge("Fall", "2025"), Badge("International", ""),
                  Badge("GPA", "3.85"), Badge("GRE", "335")>>),
       ParaRow("Great program")>>,
     <<BadgeRow(<<Badge("GRE V", "165"), Badge("GRE Q", "170"),
                  Badge("GRE AW", "4.5"), Badge("american", "")>>),
       ParaRow("")>>,
     <<BadgeRow(<<Badge("GPA", ""), Badge("Fall", ""), Badge("Note", "")>>)>>,
     <<ParaRow("Great program")>>}

EntryPages ==
    {<<m>> \o t : m \in MainRows, t \in Tails}
    \cup {pre \o <<m>> : pre \in {<<HeaderRow>>, <<ShortRow>>}, m \in MainRows}

InitEntry ==
    /\ FetchIdle /\ CrawlIdle /\ IncrIdle
    /\ RobotsIdle /\ AppIdle
    /\ pRows \in EntryPages
    /\ pI = 0
    /\ pPc = "loop"
    /\ pResults = <<>>
    /\ pGroups = <<>>

SpecEntry == InitEntry /\ [][NextParse]_vars

----------------------------------------------------------------------------
(* _make_request *)

\* One scripted outcome of self.http.request: a response with a status and a
\* body, or a raised urllib3 HTTPError / TimeoutError.
Response(status, body) == [kind |-> "response", status |-> status, body |-> body]
NetworkError == [kind |-> "exception", status |-> 0, body |-> None]

FetchBodies == {"<html>A</html>"}

Outcomes ==
    {Response(200, b) : b \in FetchBodies}
        \cup {Response(s, None) : s \in {404, 429, 500}}
        \cup {NetworkError}

\* AttemptStep with a 429 answered by giving up instead of backing off
AttemptStepNoBackoff(o, attempt, retry_count) ==
    IF o.kind = "exception"
    THEN IF attempt < retry_count - 1
         THEN [ret |-> FALSE, val |-> None, sleep |-> <<Pow2(attempt)>>]
         ELSE [ret |-> TRUE, val |-> None, sleep |-> <<>>]
    ELSE IF o.status = 200
    THEN [ret |-> TRUE, val |-> o.body, sleep |-> <<>>]
    ELSE IF o.status >= 500
    THEN [ret |-> FALSE, val |-> None, sleep |-> <<Pow2(attempt)>>]
    ELSE [ret |-> TRUE, val |-> None, sleep |-> <<>>]

\* AttemptStep with every status from 400 up retried
AttemptStepRetry4xx(o, attempt, retry_count) ==
    IF o.kind = "exception"
    THEN IF attempt < retry_count - 1
         THEN [ret |-> FALSE, val |-> None, sleep |-> <<Pow2(attempt)>>]
         ELSE [ret |-> TRUE, val |-> None, sleep |-> <<>>]
    ELSE IF o.status = 200
    THEN [ret |-> TRUE, val |-> o.body, sleep |-> <<>>]
    ELSE IF o.status >= 400
    THEN [ret |-> FALSE, val |-> None, sleep |-> <<Pow2(attempt)>>]
    ELSE [ret |-> TRUE, val |-> None, sleep |-> <<>>]

\* AttemptStep backing off 2 * attempt seconds instead of 2 ** attempt
AttemptStepLinearBackoff(o, attempt, retry_count) ==
    IF o.kind = "exception"
    THEN IF attempt < retry_count - 1
         THEN [ret |-> FALSE, val |-> None, sleep |-> <<2 * attempt>>]
         ELSE [ret |-> TRUE, val |-> None, sleep |-> <<>>]
    ELSE IF o.status = 200
    THEN [ret |-> TRUE, val |-> o.body, sleep |-> <<>>]
    ELSE IF o.status = 429 \/ o.status >= 500
    THEN [ret |-> FALSE, val |-> None, sleep |-> <<2 * attempt>>]
    ELSE [ret |-> TRUE, val |-> None, sleep |-> <<>>]

\* The body of "for attempt in range(retry_count)": what one attempt does
\* with the outcome o.  ret: the function returns now with val; sleep: the
\* time.sleep arguments of this attempt.
AttemptStep(o, attempt, retry_count) ==
    IF o.kind = "exception"
    THEN IF attempt < retry_count - 1
         THEN [ret |-> FALSE, val |-> None, sleep |-> <<Pow2(attempt)>>]
         ELSE [ret |-> TRUE, val |-> None, sleep |-> <<>>]
    ELSE IF o.status = 200
    THEN [ret |-> TRUE, val |-> o.body, sleep |-> <<>>]
    ELSE IF o.status = 429
    THEN [ret |-> FALSE, val |-> None, sleep |-> <<Pow2(attempt)>>]
    ELSE IF o.status >= 500
    THEN [ret |-> FALSE, val |-> None, sleep |-> <<Pow2(attempt)>>]
    ELSE [ret |-> TRUE, val |-> None, sleep |-> <<>>]

\* The whole call on a scripted server: result, number of requests, sleeps.
RECURSIVE MakeRequestFrom(_, _, _, _)
MakeRequestFrom(script, attempt, retry_count, sleeps) ==
    IF attempt >= retry_count \/ attempt >= Len(script)
    THEN [result |-> None, requests |-> attempt, sleeps |-> sleeps]
    ELSE LET r == AttemptStep(script[attempt + 1], attempt, retry_count)
         IN  IF r.ret
             THEN [result |-> r.val, requests |-> attempt + 1,
                   sleeps |-> sleeps \o r.sleep]
             ELSE MakeRequestFrom(script, attempt + 1, retry_count,
                                  sleeps \o r.sleep)

MakeRequest(script, retry_count) == MakeRequestFrom(script, 0, retry_count, <<>>)

InitFetch ==
    /\ ParseIdle /\ CrawlIdle /\ IncrIdle
    /\ RobotsIdle /\ AppIdle
    /\ fScript \in SeqsOfLen(Outcomes, MaxScript)
    /\ fRetry \in 0..MaxRetry
    /\ fAttempt = 0
    /\ fPc = "loop"
    /\ fResult = None
    /\ fRequests = 0
    /\ fSleeps = <<>>
    /\ fLog = <<>>

\* One iteration of the retry loop: request, then return, or sleep and go on.
FetchAttempt ==
    /\ fPc = "loop"
    /\ fAttempt < fRetry
    /\ LET r == AttemptStep(fScript[fAttempt + 1], fAttempt, fRetry)
       IN  /\ fRequests' = fRequests + 1
           /\ fSleeps' = fSleeps \o r.sleep
           /\ fLog' = Append(fLog, [ret |-> r.ret, slept |-> r.sleep /= <<>>])
           /\ IF r.ret
              THEN /\ fPc' = "returned"
                   /\ fResult' = r.val
                   /\ fAttempt' = fAttempt
              ELSE /\ fPc' = "loop"
                   /\ fResult' = fResult
                   /\ fAttempt' = fAttempt + 1
    /\ UNCHANGED <<fScript, fRetry>>
    /\ UNCHANGED <<pvars, cvars, ivars, rvars, avars>>

\* range(retry_count) is exhausted: the trailing "return None".
FetchExhausted ==
    /\ fPc = "loop"
    /\ fAttempt >= fRetry
    /\ fPc' = "returned"
    /\ fResult' = None
    /\ UNCHANGED <<fScript, fRetry, fAttempt, fRequests, fSleeps, fLog>>
    /\ UNCHANGED <<pvars, cvars, ivars, rvars, avars>>

NextFetch == FetchAttempt \/ FetchExhausted

SpecFetch == InitFetch /\ [][NextFetch]_vars

----------------------------------------------------------------------------
(* Listing pages served to the crawls *)

Sep15 == DateText("%Y-%m-%d", 2025, 9, 15)
Sep21 == DateText("%m/%d/%Y", 2025, 9, 21)
Feb30 == DateText("%m/%d/%Y", 2025, 2, 30)

PageNoTable == "<html>No results</html>"
PageOld == "<html>old</html>"
PageMixed == "<html>mixed</html>"
PageOdd == "<html>odd dates</html>"

Htmls == {PageNoTable, PageOld, PageMixed, PageOdd}

\* BeautifulSoup(html), _find_table and tbody.find_all("tr") on the pages
\* above: is there a table, and its rows.
Document(html) ==
    CASE html = PageOld ->
            [table |-> TRUE,
             rows |-> <<HeaderRow, MainRow("Old University", <<"CS">>, Sep10),
                        MainRow("Ghost College", <<>>, Sep20)>>]
      [] html = PageMixed ->
            [table |-> TRUE,
             rows |-> <<MainRow("MIT", <<"CS", "PhD">>, Sep20), DetailRow,
                        CommentRow,
                        MainRow("Stanford", <<"EE", "MS">>, Sep10),
                        MainRow("CMU", <<"ML">>, Sep15),
                        MainRow("UIUC", <<"CS">>, Sep21)>>]
      [] html = PageOdd ->
            [table |-> TRUE,
             rows |-> <<MainRow("Yale", <<"Law">>, OtherText),
                        MainRow("Duke", <<"Bio">>, EmptyText),
                        MainRow("Rice", <<"Chem">>, Feb30)>>]
      [] OTHER -> [table |-> FALSE, rows |-> <<>>]

\* _parse_list_page(html)
ParseListPage(html) ==
    LET doc == Document(html)
    IN  IF ~doc.table THEN <<>> ELSE ParseRowsFrom(doc.rows, 0)

\* _parse_list_page(html) raises
ParseListPageRaises(html) ==
    LET doc == Document(html)
    IN  doc.table /\ ParseRaisesFrom(doc.rows, 0)

DefaultRetry == 3

\* What the server does while one listing page is requested.
PageScripts ==
    {<<Response(200, h)>> : h \in Htmls \cup {""}}
        \cup {<<Response(429, None), Response(200, h)>> : h \in Htmls}
        \cup {<<Response(404, None)>>,
              <<Response(500, None), Response(429, None), Response(500, None)>>,
              <<NetworkError, NetworkError, NetworkError>>}

\* PageParams that sends the page parameter for every page
PageParamsAlways(page) == <<page>>

\* params = {"page": str(page)} if page > 1 else {}
PageParams(page) == IF page > 1 THEN <<page>> ELSE <<>>

----------------------------------------------------------------------------
(* _get_total_pages *)

PageWidget == "<html>pagination 1 2 3, Page 1 of 2</html>"
PageWidgetBig == "<html>pagination 1 2 2000</html>"
PageWidgetPlain == "<html>pagination Prev Next, Page 1 of 2</html>"
PageOfText == "<html>Page 1 of 2</html>"
PageWidgetBare == "<html>pagination Prev Next</html>"

FirstPages ==
    {PageNoTable, PageWidget, PageWidgetBig, PageWidgetPlain, PageOfText,
     PageWidgetBare}

\* BeautifulSoup(html) on the pages above: widget = there is a div, nav or
\* ul whose class matches "paginat"; links = the labels of its links whose
\* text is a number; pageOf = <<n, m>> for a text "Page n of m", else <<>>.
Pagination(html) ==
    CASE html = PageWidget ->
            [widget |-> TRUE, links |-> <<1, 2, 3>>, pageOf |-> <<1, 2>>]
      [] html = PageWidgetBig ->
            [widget |-> TRUE, links |-> <<1, 2, 2000>>, pageOf |-> <<>>]
      [] html = PageWidgetPlain ->
            [widget |-> TRUE, links |-> <<>>, pageOf |-> <<1, 2>>]
      [] html = PageOfText ->
            [widget |-> FALSE, links |-> <<>>, pageOf |-> <<1, 2>>]
      [] html = PageWidgetBare ->
            [widget |-> TRUE, links |-> <<>>, pageOf |-> <<>>]
      [] OTHER -> [widget |-> FALSE, links |-> <<>>, pageOf |-> <<>>]

\* max(page_numbers)
RECURSIVE MaxOf(_)
MaxOf(numbers) ==
    IF Len(numbers) = 1 THEN numbers[1]
    ELSE LET m == MaxOf(Tail(numbers))
         IN  IF numbers[1] >= m THEN numbers[1] ELSE m

Min(a, b) == IF a <= b THEN a ELSE b

FailedFetchPages == 1
FallbackPages == 1000
HardCeiling == 1500

\* What self._make_request(self.results_url) does inside _get_total_pages:
\* it returns a body or None, or response.data.decode("utf-8") raises
\* UnicodeDecodeError (a ValueError) on a body that is not UTF-8.
FirstPageFetches ==
    {[raised |-> FALSE, html |-> MakeRequest(script, DefaultRetry).result] :
        script \in {<<Response(200, h)>> : h \in FirstPages \cup {""}}
                       \cup {<<Response(404, None)>>,
                             <<NetworkError, NetworkError, NetworkError>>}}
    \cup {[raised |-> TRUE, html |-> None]}

\* _get_total_pages that looks for "Page n of m" before the widget
GetTotalPagesTextFirst(fetch) ==
    IF fetch.raised THEN FallbackPages
    ELSE IF ~Truthy(fetch.html) THEN FailedFetchPages
    ELSE LET p == Pagination(fetch.html)
         IN  IF p.pageOf /= <<>> THEN p.pageOf[2]
             ELSE IF p.widget /\ p.links /= <<>> THEN MaxOf(p.links)
             ELSE FallbackPages

\* _get_total_pages that answers 1000 when the fetch yields no body
GetTotalPagesFallbackOnNoBody(fetch) ==
    IF fetch.raised THEN FallbackPages
    ELSE IF ~Truthy(fetch.html) THEN FallbackPages
    ELSE LET p == Pagination(fetch.html)
         IN  IF p.widget /\ p.links /= <<>> THEN MaxOf(p.links)
             ELSE IF p.pageOf /= <<>> THEN p.pageOf[2]
             ELSE FallbackPages

\* _get_total_pages
GetTotalPages(fetch) ==
    IF fetch.raised THEN FallbackPages
    ELSE IF ~Truthy(fetch.html) THEN FailedFetchPages
    ELSE LET p == Pagination(fetch.html)
         IN  IF p.widget /\ p.links /= <<>> THEN MaxOf(p.links)
             ELSE IF p.pageOf /= <<>> THEN p.pageOf[2]
             ELSE FallbackPages

----------------------------------------------------------------------------
(* scrape_data *)

BreakerLimit == 5
SaveEvery == 50

\* TooManyEmpty with ">" for ">="
TooManyEmptyOffByOne(consecutive_empty_pages) ==
    consecutive_empty_pages > BreakerLimit

\* "if consecutive_empty_pages >= 5: break"
TooManyEmpty(consecutive_empty_pages) == consecutive_empty_pages >= BreakerLimit

InitCrawl ==
    /\ FetchIdle /\ ParseIdle /\ IncrIdle
    /\ RobotsIdle /\ AppIdle
    /\ cArg \in {<<>>, <<0>>, <<2>>, <<MaxPages>>}
    /\ cDiscovery = <<>>
    /\ cMaxPages = IF cArg = <<>> THEN 0 ELSE cArg[1]
    /\ cTarget \in IF cArg = <<>> THEN {100} ELSE {3, 100}
    /\ cPage = 1
    /\ cEmpty = 0
    /\ cResults = <<>>
    /\ cPc = IF cArg = <<>> THEN "start" ELSE "loop"
    /\ cServer = [lo |-> 1, hi |-> HardCeiling]
    /\ cSaved = <<>>
    /\ cLog = <<>>

\* What the server may do while the given page is requested
ScriptsFor(server, page) ==
    IF server.lo <= page /\ page <= server.hi
    THEN PageScripts
    ELSE {<<Response(200, PageOld)>>}

\* "if max_pages is None: max_pages = min(self._get_total_pages(), 1500)"
CrawlStart ==
    /\ cPc = "start"
    /\ \E fetch \in FirstPageFetches :
       \E total \in {GetTotalPages(fetch)} :
        /\ cDiscovery' = Append(cDiscovery,
                                [raised |-> fetch.raised,
                                 fetched |-> Truthy(fetch.html),
                                 html |-> fetch.html,
                                 total |-> total])
        /\ cMaxPages' = Min(total, HardCeiling)
    /\ cPc' = "loop"
    /\ UNCHANGED <<cArg, cTarget, cPage, cEmpty, cResults, cSaved, cLog, cServer>>
    /\ UNCHANGED <<fvars, pvars, ivars, rvars, avars>>

\* One iteration of "while page <= max_pages and len(all_results) <
\* target_entries"; a break also runs the statements after the loop.  Of a
\* crawl of a discovered length the first MaxPages pages are explored.
CrawlPage ==
    /\ cPc = "loop"
    /\ cPage <= cMaxPages
    /\ cArg = <<>> => cPage <= MaxPages
    /\ Len(cResults) < cTarget
    /\ \E script \in ScriptsFor(cServer, cPage) :
       \E html \in {MakeRequest(script, DefaultRetry).result} :
       \E page_results \in {IF Truthy(html) THEN ParseListPage(html) ELSE <<>>} :
        LET empty == cEmpty + 1
            entry(slept) == [page |-> cPage, params |-> PageParams(cPage),
                             fetched |-> Truthy(html),
                             entries |-> page_results, slept |-> slept]
        IN  IF Truthy(html) /\ ParseListPageRaises(html)
            THEN /\ cPc' = "raised"
                 /\ cLog' = Append(cLog, entry(FALSE))
                 /\ UNCHANGED <<cPage, cEmpty, cResults, cSaved>>
            ELSE IF ~Truthy(html)
            THEN /\ cEmpty' = empty
                 /\ cLog' = Append(cLog, entry(FALSE))
                 /\ IF TooManyEmpty(empty)
                    THEN cPc' = "returned" /\ cPage' = cPage
                    ELSE cPc' = "loop" /\ cPage' = cPage + 1
                 /\ UNCHANGED <<cResults, cSaved>>
            ELSE IF page_results = <<>> /\ TooManyEmpty(empty)
            THEN /\ cEmpty' = empty
                 /\ cLog' = Append(cLog, entry(FALSE))
                 /\ cPc' = "returned"
                 /\ UNCHANGED <<cPage, cResults, cSaved>>
            ELSE /\ cEmpty' = IF page_results = <<>> THEN empty ELSE 0
                 /\ cResults' = cResults \o page_results
                 /\ cLog' = Append(cLog, entry(TRUE))
                 /\ cPage' = cPage + 1
                 /\ cSaved' = IF (cPage + 1) % SaveEvery = 0
                              THEN Append(cSaved, [index |-> cPage + 1,
                                                   data |-> cResults'])
                              ELSE cSaved
                 /\ cPc' = "loop"
    /\ UNCHANGED <<cArg, cDiscovery, cMaxPages, cTarget, cServer>>
    /\ UNCHANGED <<fvars, pvars, ivars, rvars, avars>>

\* The loop condition fails: "self.scraped_data = all_results; return"
CrawlReturn ==
    /\ cPc = "loop"
    /\ ~(cPage <= cMaxPages /\ Len(cResults) < cTarget)
    /\ cPc' = "returned"
    /\ UNCHANGED <<cArg, cDiscovery, cMaxPages, cTarget, cPage, cEmpty,
                   cResults, cSaved, cLog, cServer>>
    /\ UNCHANGED <<fvars, pvars, ivars, rvars, avars>>

NextCrawl == CrawlStart \/ CrawlPage \/ CrawlReturn

SpecCrawl == InitCrawl /\ [][NextCrawl]_vars

----------------------------------------------------------------------------
(* GradCafeListScraper.__init__ and _check_robots_txt, then a crawl
   (SpecScraper) *)

\* What rp.read() and rp.can_fetch() do.  read is "ok" when the policy was
\* read (or the server answered with an HTTP error status, which read()
\* turns into allow-all or disallow-all), "URLError" when urlopen raises
\* urllib.error.URLError (no route, name not resolved, connection refused),
\* "urllib3.HTTPError" when it raises urllib3.exceptions.HTTPError.
RobotsOutcomes ==
    {[read |-> "ok", can_fetch |-> TRUE], [read |-> "ok", can_fetch |-> FALSE],
     [read |-> "URLError", can_fetch |-> TRUE],
     [read |-> "urllib3.HTTPError", can_fetch |-> TRUE]}

\* _check_robots_txt: the value returned, or the exception that leaves it.
\* The except clause names urllib3.exceptions.HTTPError only.
CheckRobotsTxt(robots) ==
    IF robots.read = "ok"
    THEN [raised |-> FALSE, value |-> robots.can_fetch]
    ELSE IF robots.read = "urllib3.HTTPError"
    THEN [raised |-> FALSE, value |-> TRUE]
    ELSE [raised |-> TRUE, value |-> None]

InitScraper ==
    /\ FetchIdle /\ ParseIdle /\ IncrIdle /\ AppIdle
    /\ rRobots \in RobotsOutcomes
    /\ rPc = "new"
    /\ rChecks = 0
    /\ rAllowed = None
    /\ cArg \in {<<1>>, <<2>>}
    /\ cDiscovery = <<>>
    /\ cMaxPages = cArg[1]
    /\ cTarget = 3
    /\ cPage = 1
    /\ cEmpty = 0
    /\ cResults = <<>>
    /\ cPc = "loop"
    /\ cSaved = <<>>
    /\ cLog = <<>>
    /\ cServer = [lo |-> 1, hi |-> HardCeiling]

\* __init__: the fields are set, then self._check_robots_txt() is called
\* and its result dropped.
Construct ==
    /\ rPc = "new"
    /\ rChecks' = rChecks + 1
    /\ \E r \in {CheckRobotsTxt(rRobots)} :
         /\ rPc' = IF r.raised THEN "raised" ELSE "constructed"
         /\ rAllowed' = IF r.raised THEN None
                        ELSE IF r.value THEN "True" ELSE "False"
    /\ UNCHANGED rRobots
    /\ UNCHANGED <<fvars, pvars, cvars, ivars, avars>>

\* scrape_data on the constructed scraper
ScraperCrawlPage == rPc = "constructed" /\ CrawlPage /\ UNCHANGED rvars

ScraperCrawlReturn == rPc = "constructed" /\ CrawlReturn /\ UNCHANGED rvars

NextScraper == Construct \/ ScraperCrawlPage \/ ScraperCrawlReturn

SpecScraper == InitScraper /\ [][NextScraper]_vars

----------------------------------------------------------------------------
(* scrape_data over 60 pages (SpecCheckpoint) *)

LongCrawlPages == 60
LongCrawlTarget == 1000

\* scrape_data(max_pages=60, target_entries=1000); the pages around the
\* 50th answer in any way, every other page with the same valid page.
InitCheckpoint ==
    /\ FetchIdle /\ ParseIdle /\ IncrIdle
    /\ RobotsIdle /\ AppIdle
    /\ cArg = <<LongCrawlPages>>
    /\ cDiscovery = <<>>
    /\ cMaxPages = LongCrawlPages
    /\ cTarget = LongCrawlTarget
    /\ cPage = 1
    /\ cEmpty = 0
    /\ cResults = <<>>
    /\ cPc = "loop"
    /\ cSaved = <<>>
    /\ cLog = <<>>
    /\ cServer = [lo |-> SaveEvery - 2, hi |-> SaveEvery]

NextCheckpoint == CrawlPage \/ CrawlReturn

SpecCheckpoint == InitCheckpoint /\ [][NextCheckpoint]_vars

----------------------------------------------------------------------------
(* get_latest_database_date and is_entry_newer *)

\* The watermark query: psycopg raises (error), or MAX(date_added) is max.
DbDates == {Date(2025, 9, 15), Date(2025, 9, 20)}
DbStates == [error : BOOLEAN, max : DbDates \cup {NoDate}]

\* GetLatestDatabaseDate that ignores the failure of the query
GetLatestDatabaseDateIgnoringError(db) == db.max

GetLatestDatabaseDate(db) ==
    IF db.error THEN NoDate ELSE db.max

DaysIn(y, m) ==
    IF m = 2 THEN (IF y % 4 = 0 /\ (y % 100 /= 0 \/ y % 400 = 0) THEN 29 ELSE 28)
    ELSE IF m \in {4, 6, 9, 11} THEN 30 ELSE 31

\* datetime.strptime(text, fmt).date(): ValueError unless the text is
\* written in fmt and names a day of the calendar.
Strptime(text, fmt) ==
    IF text.shape = fmt /\ text.m \in 1..12 /\ text.d \in 1..DaysIn(text.y, text.m)
    THEN [ok |-> TRUE, date |-> Date(text.y, text.m, text.d)]
    ELSE [ok |-> FALSE, date |-> NoDate]

\* DateGt with ">=" for ">"
DateGe(a, b) ==
    \/ a.y > b.y
    \/ a.y = b.y /\ a.m > b.m
    \/ a.y = b.y /\ a.m = b.m /\ a.d >= b.d

DateGt(a, b) ==
    \/ a.y > b.y
    \/ a.y = b.y /\ a.m > b.m
    \/ a.y = b.y /\ a.m = b.m /\ a.d > b.d

DateFormats == <<"%B %d, %Y", "%b %d, %Y", "%m/%d/%Y", "%Y-%m-%d">>

\* "for fmt in [...]: try: return entry_date > cutoff_date / except
\* ValueError: continue", then the fail-open "return True"
RECURSIVE TryFormats(_, _, _)
TryFormats(text, cutoff_date, k) ==
    IF k > Len(DateFormats)
    THEN TRUE
    ELSE LET r == Strptime(text, DateFormats[k])
         IN  IF r.ok THEN DateGt(r.date, cutoff_date)
             ELSE TryFormats(text, cutoff_date, k + 1)

\* IsEntryNewer that ends with "return False" when no format parses
IsEntryNewerFailClosed(entry_date_str, cutoff_date) ==
    IF entry_date_str.shape = "" \/ cutoff_date = NoDate
    THEN TRUE
    ELSE \E k \in 1..Len(DateFormats) :
            /\ Strptime(entry_date_str, DateFormats[k]).ok
            /\ DateGt(Strptime(entry_date_str, DateFormats[k]).date, cutoff_date)

IsEntryNewer(entry_date_str, cutoff_date) ==
    IF entry_date_str.shape = "" \/ cutoff_date = NoDate
    THEN TRUE
    ELSE TryFormats(entry_date_str, cutoff_date, 1)

----------------------------------------------------------------------------
(* scrape_new_data_only *)

OldPagesLimit == 5

\* TooManyOld with ">" for ">="
TooManyOldOffByOne(consecutive_old_pages) == consecutive_old_pages > OldPagesLimit

\* "if consecutive_old_pages >= 5: break"
TooManyOld(consecutive_old_pages) == consecutive_old_pages >= OldPagesLimit

\* "if entry_date_str and self.is_entry_newer(entry_date_str, latest)"
KeptAsNew(entry, latest) ==
    entry.date_added.shape /= "" /\ IsEntryNewer(entry.date_added, latest)

\* new_entries_on_page
NewEntriesOnPage(page_results, latest) ==
    LET new(e) == KeptAsNew(e, latest) IN SelectSeq(page_results, new)

\* SkipsPage that lets a page without entries through to the filter
SkipsPageFailedOnly(html, page_results) == ~Truthy(html)

\* "if not html: ... continue" and "if not page_results: ... continue"
SkipsPage(html, page_results) == ~Truthy(html) \/ page_results = <<>>

InitIncr ==
    /\ FetchIdle /\ ParseIdle /\ CrawlIdle
    /\ RobotsIdle /\ AppIdle
    /\ iDb \in DbStates
    /\ iMaxPages \in {0, 2, MaxPages}
    /\ iLatest = NoDate
    /\ iPage = 0
    /\ iOld = 0
    /\ iResults = <<>>
    /\ iPc = "start"
    /\ iLog = <<>>

\* Lines 136-146: read the watermark; without one return [] at once.
IncrStart ==
    /\ iPc = "start"
    /\ iLatest' = GetLatestDatabaseDate(iDb)
    /\ IF iLatest' = NoDate
       THEN iPc' = "returned" /\ iPage' = iPage
       ELSE iPc' = "loop" /\ iPage' = 1
    /\ UNCHANGED <<iDb, iMaxPages, iOld, iResults, iLog>>
    /\ UNCHANGED <<fvars, pvars, cvars, rvars, avars>>

\* One iteration of "while page <= max_pages"; a break returns.
IncrPage ==
    /\ iPc = "loop"
    /\ iPage <= iMaxPages
    /\ \E script \in PageScripts :
       \E html \in {MakeRequest(script, DefaultRetry).result} :
       \E page_results \in {IF Truthy(html) THEN ParseListPage(html) ELSE <<>>} :
       \E new_entries_on_page \in {NewEntriesOnPage(page_results, iLatest)} :
        LET old == IF new_entries_on_page /= <<>> THEN 0 ELSE iOld + 1
            entry(slept) == [page |-> iPage, params |-> PageParams(iPage),
                             fetched |-> Truthy(html),
                             entries |-> page_results, slept |-> slept]
        IN  IF Truthy(html) /\ ParseListPageRaises(html)
            THEN /\ iPc' = "raised"
                 /\ iLog' = Append(iLog, entry(FALSE))
                 /\ UNCHANGED <<iPage, iOld, iResults>>
            ELSE IF SkipsPage(html, page_results)
            THEN /\ iPage' = iPage + 1
                 /\ iLog' = Append(iLog, entry(FALSE))
                 /\ UNCHANGED <<iOld, iResults, iPc>>
            ELSE /\ iResults' = iResults \o new_entries_on_page
                 /\ iOld' = old
                 /\ IF TooManyOld(old)
                    THEN /\ iPc' = "returned"
                         /\ iPage' = iPage
                         /\ iLog' = Append(iLog, entry(FALSE))
                    ELSE /\ iPc' = "loop"
                         /\ iPage' = iPage + 1
                         /\ iLog' = Append(iLog, entry(TRUE))
    /\ UNCHANGED <<iDb, iMaxPages, iLatest>>
    /\ UNCHANGED <<fvars, pvars, cvars, rvars, avars>>

\* The loop condition fails: "return new_results"
IncrReturn ==
    /\ iPc = "loop"
    /\ iPage > iMaxPages
    /\ iPc' = "returned"
    /\ UNCHANGED <<iDb, iMaxPages, iLatest, iPage, iOld, iResults, iLog>>
    /\ UNCHANGED <<fvars, pvars, cvars, rvars, avars>>

NextIncr == IncrStart \/ IncrPage \/ IncrReturn

SpecIncr == InitIncr /\ [][NextIncr]_vars

----------------------------------------------------------------------------
(* Either crawl *)

InitCrawls == InitCrawl \/ InitIncr

NextCrawls == NextCrawl \/ NextIncr

SpecCrawls == InitCrawls /\ [][NextCrawls]_vars

----------------------------------------------------------------------------
(* Properties of _make_request (SpecFetch) *)

\* an outcome the fetcher is to retry: 429, 5xx, or a network exception
Retryable(o) == o.kind = "exception" \/ o.status = 429 \/ o.status >= 500

RECURSIVE LeadingRetryable(_)
LeadingRetryable(script) ==
    IF script = <<>> \/ ~Retryable(Head(script))
    THEN 0
    ELSE 1 + LeadingRetryable(Tail(script))

\* C1: when the server gives N retryable outcomes and then a 200, a call
\* with budget R returns the 200 body after exactly N+1 requests if N < R,
\* and None after exactly R requests if N >= R; a call never makes more
\* than R requests.
C1_BackoffTermination ==
    /\ fRequests <= fRetry
    /\ fPc = "returned" =>
        LET n == LeadingRetryable(fScript)
        IN  (n < Len(fScript) /\ fScript[n + 1].status = 200) =>
                IF n < fRetry
                THEN fResult = fScript[n + 1].body /\ fRequests = n + 1
                ELSE fResult = None /\ fRequests = fRetry

C1_Witness ==
    /\ fPc = "returned"
    /\ fRetry = 3
    /\ LeadingRetryable(fScript) = 2
    /\ fScript[3].status = 200
    /\ fResult = fScript[3].body
    /\ fRequests = 3

\* a response that is neither 200, 429 nor >= 500
Permanent(o) ==
    o.kind = "response" /\ o.status /= 200 /\ o.status /= 429 /\ o.status < 500

\* C10: an attempt answered by a status other than 200, 429 and >= 500 is
\* the last one of the call: the call has returned None, it did not sleep
\* after that response and made no further request.
C10_PermanentFailure ==
    \A k \in 1..Len(fLog) :
        Permanent(fScript[k]) =>
            /\ fPc = "returned"
            /\ fResult = None
            /\ fRequests = k
            /\ Len(fLog) = k
            /\ ~fLog[k].slept
            /\ Len(fSleeps) = k - 1

C10_Witness ==
    /\ fPc = "returned"
    /\ fRetry = 3
    /\ fScript[1].status = 404
    /\ fRequests = 1
    /\ fSleeps = <<>>
    /\ fResult = None

\* a response the fetcher backs off on: 429 or a status from 500 up
RetryableStatus(o) == o.kind = "response" /\ (o.status = 429 \/ o.status >= 500)

\* the backoff schedule 1, 2, 4, ... written out
Schedule == <<1, 2, 4, 8, 16, 32>>

\* C11: attempt k (from 0) answered 429 or >= 500 is followed by a sleep of
\* exactly 2^k seconds, the sleeps of a call are 1, 2, 4, ... in that order,
\* and on [429, 429, 200] with budget 3 the call sleeps 1 then 2 and returns
\* the 200 body.
C11_BackoffSchedule ==
    /\ \A k \in 1..Len(fLog) :
          RetryableStatus(fScript[k]) =>
              /\ fLog[k].slept
              /\ Len(fSleeps) >= k
              /\ fSleeps[k] = Schedule[k]
    /\ \A j \in 1..Len(fSleeps) : fSleeps[j] = Schedule[j]
    /\ ( /\ fPc = "returned"
         /\ fRetry = 3
         /\ fScript[1].status = 429
         /\ fScript[2].status = 429
         /\ fScript[3].status = 200 ) =>
            fSleeps = <<1, 2>> /\ fResult = fScript[3].body

C11_Witness ==
    /\ fPc = "returned"
    /\ fRetry = 3
    /\ fScript[1].status = 429
    /\ fScript[2].status = 429
    /\ fScript[3].status = 200
    /\ fSleeps = <<1, 2>>
    /\ fResult = fScript[3].body
    /\ fResult /= None

\* the script with every 429 / 5xx response replaced by a network exception
AsExceptions(script) ==
    [k \in 1..Len(script) |->
        IF RetryableStatus(script[k]) THEN NetworkError ELSE script[k]]

\* C12: a finished call has made the same number of requests, slept the
\* same durations and returned the same result as the call on the script
\* in which every retryable status is replaced by an exception.
C12_ExceptionLikeStatus ==
    fPc = "returned" =>
        LET other == MakeRequest(AsExceptions(fScript), fRetry)
        IN  /\ fRequests = other.requests
            /\ fSleeps = other.sleeps
            /\ fResult = other.result

----------------------------------------------------------------------------
(* Properties of _parse_list_page (SpecParse) *)

\* the (group, role) pairs that use row r
UsesOfRow(r) ==
    {<<k, "main">> : k \in {j \in DOMAIN pGroups : pGroups[j].main = r}}
        \cup {<<k, "detail">> : k \in {j \in DOMAIN pGroups : pGroups[j].detail = r}}
        \cup {<<k, "comment">> : k \in {j \in DOMAIN pGroups : pGroups[j].comment = r}}

\* C9: every main row of a row-group has at least 4 data cells, and every
\* table row is used by at most one row-group, in at most one role.
C9_RowGroups ==
    /\ \A k \in DOMAIN pGroups : Row(pRows, pGroups[k].main).ntd >= 4
    /\ \A r \in 0..(Len(pRows) - 1) : Cardinality(UsesOfRow(r)) <= 1

C9_Witness ==
    /\ pPc = "returned"
    /\ Len(pGroups) = 2
    /\ pGroups[1] = [main |-> 0, detail |-> 1, comment |-> 2, kept |-> TRUE]
    /\ pGroups[2].main = 3

----------------------------------------------------------------------------
(* Properties of the entries (SpecEntry) *)

\* the entry made from the k-th row-group of the page (kept or dropped)
EntryOfGroup(k) == GroupAt(pRows, pGroups[k].main).entry

\* the derivation of program from major and school
ProgramOf(major, school) ==
    IF major /= "" /\ school /= "" THEN major \o ", " \o school
    ELSE IF major /= "" THEN major
    ELSE IF school /= "" THEN school
    ELSE None

\* C13: every entry produced from a row-group has program = "major, school"
\* when both are non-empty, the one that is non-empty when only one is, and
\* None when neither is, whatever the rest of the row-group holds.
C13_ProgramDerived ==
    /\ \A k \in DOMAIN pGroups :
          ~EntryOfGroup(k).none =>
              /\ EntryOfGroup(k).major /= None
              /\ EntryOfGroup(k).program =
                    ProgramOf(EntryOfGroup(k).major, EntryOfGroup(k).school)
    /\ \A k \in DOMAIN pResults :
          pResults[k].program = ProgramOf(pResults[k].major, pResults[k].school)

C13_Witness ==
    /\ pPc = "returned"
    /\ Len(pResults) = 1
    /\ pResults[1].school = "MIT"
    /\ pResults[1].major = "CS"
    /\ pResults[1].program = "CS, MIT"
    /\ "url" \in DOMAIN pResults[1]
    /\ "status" \in DOMAIN pResults[1]
    /\ pResults[1].comments = "Great program"

\* C14: an entry made from a main row whose status text contains "wait",
\* in any casing or spacing and with or without "on <date>", has status
\* "Waitlisted".
C14_WaitlistedNormalized ==
    \A k \in DOMAIN pGroups :
        LET main == Row(pRows, pGroups[k].main)
            e == EntryOfGroup(k)
        IN  (main.sdiv /\ ContainsWait(main.stext.base) /\ ~e.none) =>
                /\ "status" \in DOMAIN e
                /\ e.status = "Waitlisted"

\* the fields of an Entry
EntryFields ==
    {"school", "major", "degree", "program", "semester", "status",
     "status_date", "date_added", "url", "applicant_type", "gpa",
     "gre_total", "gre_verbal", "gre_quant", "gre_aw", "comments"}

\* the value is the empty string
IsEmptyString(f, v) == IF f = "date_added" THEN v = EmptyText ELSE v = ""

\* C15: every entry returned by page parsing has every Entry field as a
\* key, and no field holds the empty string.
C15_AbsentUniform ==
    \A k \in DOMAIN pResults :
        \A f \in EntryFields :
            /\ f \in DOMAIN pResults[k]
            /\ ~IsEmptyString(f, pResults[k][f])

----------------------------------------------------------------------------
(* Properties of scrape_data (SpecCrawl) *)

\* a requested page that failed to fetch or parsed to no entry
EmptyOrFailed(rec) == ~rec.fetched \/ rec.entries = <<>>

RECURSIVE TrailingEmpty(_)
TrailingEmpty(log) ==
    IF log = <<>> \/ ~EmptyOrFailed(log[Len(log)])
    THEN 0
    ELSE 1 + TrailingEmpty(SubSeq(log, 1, Len(log) - 1))

\* log[k..k+4] are five pages in a row that satisfy P
FiveInARow(log, k, P(_)) == \A j \in k..(k + 4) : P(log[j])

\* C2: consecutive_empty_pages is the length of the current run of failed
\* or empty pages (any page with an entry resets it), the crawl has stopped
\* once it reaches 5, and no page is requested after five failed or empty
\* pages in a row.
C2_CircuitBreaker ==
    /\ cEmpty = TrailingEmpty(cLog)
    /\ cEmpty >= 5 => cPc = "returned"
    /\ \A k \in 1..(Len(cLog) - 4) :
          FiveInARow(cLog, k, EmptyOrFailed) => Len(cLog) = k + 4

C2_Witness ==
    /\ cPc = "returned"
    /\ cMaxPages >= 6
    /\ Len(cLog) = 6
    /\ ~EmptyOrFailed(cLog[1])
    /\ FiveInARow(cLog, 2, EmptyOrFailed)
    /\ \E j \in 2..6 : ~cLog[j].fetched
    /\ \E j \in 2..6 : cLog[j].fetched
    /\ cEmpty = 5

\* the page limit of the crawl: max_pages as passed, or the discovered page
\* count capped at 1500 when it was omitted
PageLimit ==
    IF cArg /= <<>> THEN cArg[1]
    ELSE IF cDiscovery[1].total <= 1500 THEN cDiscovery[1].total ELSE 1500

\* the number of entries accumulated from the first k requests
RECURSIVE Accumulated(_)
Accumulated(k) ==
    IF k = 0 THEN 0 ELSE Accumulated(k - 1) + Len(cLog[k].entries)

C16_Requests ==
    /\ cLog /= <<>> => cArg /= <<>> \/ Len(cDiscovery) = 1
    /\ \A k \in DOMAIN cLog :
          /\ cLog[k].page = k
          /\ cLog[k].params = IF k = 1 THEN <<>> ELSE <<k>>
          /\ k <= PageLimit
          /\ Accumulated(k - 1) < cTarget
    /\ Len(cResults) = Accumulated(Len(cLog))
    /\ cPc = "loop" => cPage = Len(cLog) + 1 /\ cPage <= PageLimit + 1
    /\ cPc = "returned" \/ cPage > MaxPages \/ ENABLED NextCrawl

C16_Progress ==
    cPc = "loop" => cPc' = "returned" \/ cPage' = cPage + 1

ClaimedTotal(d, noBody) ==
    IF d.raised THEN 1000
    ELSE IF ~d.fetched THEN noBody
    ELSE IF Pagination(d.html).widget /\ Pagination(d.html).links /= <<>>
    THEN MaxOf(Pagination(d.html).links)
    ELSE IF Pagination(d.html).pageOf /= <<>>
    THEN Pagination(d.html).pageOf[2]
    ELSE 1000

----------------------------------------------------------------------------
(* Properties of scrape_new_data_only (SpecIncr) *)

WatermarkMissing == iDb.error \/ iDb.max = NoDate

\* C3: when the watermark query fails or MAX(date_added) is NULL, the call
\* requests no listing page and returns the empty list.
C3_NoWatermark ==
    (iPc /= "idle" /\ WatermarkMissing) =>
        /\ iLog = <<>>
        /\ iResults = <<>>
        /\ iPc \in {"start", "returned"}

C3_Witness ==
    /\ iPc = "returned"
    /\ iDb.error
    /\ iDb.max /= NoDate
    /\ iMaxPages >= 1
    /\ iResults = <<>>

\* the entries of all pages parsed so far, in page then row order
RECURSIVE VisitedEntries(_)
VisitedEntries(log) ==
    IF log = <<>> THEN <<>>
    ELSE VisitedEntries(SubSeq(log, 1, Len(log) - 1)) \o log[Len(log)].entries

\* the date text is written in one of the accepted formats
Parses(text) == \E k \in 1..Len(DateFormats) : Strptime(text, DateFormats[k]).ok

DayNumber(t) == t.y * 10000 + t.m * 100 + t.d

\* How the crawl loop (lines 172-177) classifies an entry: a date that parses
\* is newer iff it is strictly after the cutoff, a non-empty text that does
\* not parse is newer, an empty date is counted as old.
ClassifiedNewer(e) ==
    /\ e.date_added.shape /= ""
    /\ Parses(e.date_added) => DayNumber(e.date_added) > DayNumber(iLatest)

UnparseableText(e) == e.date_added.shape /= "" /\ ~Parses(e.date_added)

\* C5: the entries with a non-empty date text that matches no accepted
\* format are all in the result, every one of every visited page, whatever
\* the cutoff.
C5_FailOpenUnparseable ==
    iPc \in {"loop", "returned"} =>
        SelectSeq(iResults, UnparseableText)
            = SelectSeq(VisitedEntries(iLog), UnparseableText)

C5_Witness ==
    /\ iPc = "returned"
    /\ iLatest = Date(2025, 9, 20)
    /\ Len(SelectSeq(iResults, UnparseableText)) >= 2
    /\ \E k \in 1..Len(iResults) : iResults[k].date_added = Feb30
    /\ \E k \in 1..Len(iResults) : iResults[k].date_added = OtherText

AbsentDate(e) == e.date_added.shape = ""

\* C6: the entries with an absent date are all in the result (fail-open).
C6_FailOpenAbsent ==
    iPc \in {"loop", "returned"} =>
        SelectSeq(iResults, AbsentDate)
            = SelectSeq(VisitedEntries(iLog), AbsentDate)

\* a page that parsed to entries none of which was added to the result
Stale(rec) ==
    /\ rec.entries /= <<>>
    /\ \A j \in 1..Len(rec.entries) : ~ClassifiedNewer(rec.entries[j])

Fresh(rec) == \E j \in 1..Len(rec.entries) : ClassifiedNewer(rec.entries[j])

\* stale pages since the last page that contributed a new entry
RECURSIVE StaleRun(_)
StaleRun(log) ==
    IF log = <<>> \/ Fresh(log[Len(log)])
    THEN 0
    ELSE (IF Stale(log[Len(log)]) THEN 1 ELSE 0)
            + StaleRun(SubSeq(log, 1, Len(log) - 1))

\* C7: consecutive_old_pages counts the stale pages since the last page
\* that contributed a new entry (which resets it to 0); once it reaches 5
\* the crawl has stopped, and no page is requested after five stale pages
\* in a row, whatever max_pages is.
C7_StaleStop ==
    /\ iOld = StaleRun(iLog)
    /\ iOld >= 5 => iPc = "returned"
    /\ \A k \in 1..(Len(iLog) - 4) :
          FiveInARow(iLog, k, Stale) => Len(iLog) = k + 4

C7_Witness ==
    /\ iPc = "returned"
    /\ iMaxPages >= 6
    /\ Len(iLog) = 6
    /\ Fresh(iLog[1])
    /\ FiveInARow(iLog, 2, Stale)
    /\ iOld = 5
    /\ iPage = 6

\* C8: no page is requested after five failed or empty pages in a row.
C8_EmptyPageBreaker ==
    \A k \in 1..(Len(iLog) - 4) :
        FiveInARow(iLog, k, EmptyOrFailed) => Len(iLog) = k + 4

----------------------------------------------------------------------------
(* Properties of both crawls (SpecCrawls) *)

\* a list of entries
IsEntryList(results) == \A k \in DOMAIN results : ~results[k].none

\* C17: whatever the pages do (retries exhausted on 429 or 5xx, a permanent
\* HTTP failure, a network exception on every attempt, a page without a
\* table, a page with malformed rows, a page with valid rows), neither
\* crawl ends in an exception; each holds a list of entries throughout and
\* when it has returned, and a crawl that has not returned can take a step.
C17_AlwaysReturnsList ==
    /\ cPc /= "raised" /\ iPc /= "raised"
    /\ IsEntryList(cResults) /\ IsEntryList(iResults)
    /\ cPc \in {"start", "loop"} =>
          cPage > MaxPages \/ ENABLED NextCrawl
    /\ iPc \in {"start", "loop"} => ENABLED NextIncr

\* the crawl met a page with a malformed row and pages that failed
C17_Witness ==
    /\ cPc = "returned"
    /\ Len(cLog) = 4
    /\ ~cLog[1].fetched
    /\ cLog[2].fetched /\ cLog[2].entries = <<>>
    /\ Len(cLog[3].entries) = 1
    /\ cLog[3].entries[1].school = "Old University"
    /\ Len(cLog[4].entries) = 4
    /\ Len(cResults) = 5

\* C18: after every listing-page request that is followed by another one
\* in the same crawl, the fixed delay has been slept.
C18_DelayBetweenPages ==
    /\ \A k \in 1..(Len(cLog) - 1) : cLog[k].slept
    /\ \A k \in 1..(Len(iLog) - 1) : iLog[k].slept

----------------------------------------------------------------------------
(* Further properties of _parse_list_page (SpecParse) *)

\* the extraction of the k-th row-group failed: no entry came out of it
Failed(k) == EntryOfGroup(k).none

\* the entries the page emits from its first n row-groups, in row order
RECURSIVE EmittedUpTo(_)
EmittedUpTo(n) ==
    IF n = 0 THEN <<>>
    ELSE EmittedUpTo(n - 1)
            \o (IF ~Failed(n) /\ EntryOfGroup(n).school /= ""
                THEN <<EntryOfGroup(n)>> ELSE <<>>)

\* a row that can start a row-group: not a header, at least four cells
Candidate(r) == ~(Row(pRows, r).th /\ Row(pRows, r).ntd = 0) /\ Row(pRows, r).ntd >= 4

\* C25: a row-group whose extraction fails is dropped and the page goes on:
\* the page never raises, its result is what the other row-groups emit, in
\* row order, and when it returns every row that can start a row-group
\* has been taken into one.
C25_FailureDropsOneGroup ==
    /\ pPc /= "raised"
    /\ pResults = EmittedUpTo(Len(pGroups))
    /\ \A k \in DOMAIN pGroups : \A j \in DOMAIN pGroups :
          k < j => pGroups[k].main < pGroups[j].main
    /\ pPc = "returned" =>
          \A r \in 0..(Len(pRows) - 1) : Candidate(r) => UsesOfRow(r) /= {}

C25_Witness ==
    /\ pPc = "returned"
    /\ Len(pGroups) = 3
    /\ ~Failed(1) /\ Failed(2) /\ ~Failed(3)
    /\ Len(pResults) = 2
    /\ pResults[2] = EntryOfGroup(3)

\* C28: a row-group has a comment row only if it has a detail row; a
\* marker row right after the main row is the detail row even when it
\* holds the comment paragraph, and the comment row is the second marker
\* row in a row after the main row.
C28_CommentNeedsDetail ==
    \A k \in DOMAIN pGroups :
        LET g == pGroups[k]
        IN  /\ g.comment /= NoRow => g.detail /= NoRow
            /\ (g.main + 1 < Len(pRows) /\ Row(pRows, g.main + 1).marker) =>
                  g.detail = g.main + 1
            /\ g.detail /= NoRow =>
                  g.detail = g.main + 1 /\ Row(pRows, g.detail).marker
            /\ g.comment /= NoRow =>
                  /\ g.comment = g.main + 2
                  /\ Row(pRows, g.comment).marker
                  /\ Row(pRows, g.comment).para

\* a comment-paragraph row right after the main row was taken as detail
C28_Witness ==
    /\ pPc = "returned"
    /\ Len(pGroups) = 1
    /\ pGroups[1].main = 0
    /\ pGroups[1].detail = 1
    /\ Row(pRows, 1).para
    /\ pGroups[1].comment = 2
    /\ Len(pRows) = 3

\* C29: every entry the page returns has a non-empty school; a row-group
\* whose entry has an empty school is left out although an entry was made
\* from it, so the page returns as many entries as it has row-groups with
\* an entry of non-empty school.
C29_SchoolRequired ==
    /\ \A k \in DOMAIN pResults : pResults[k].school /= ""
    /\ \A k \in DOMAIN pGroups :
          (~Failed(k) /\ EntryOfGroup(k).school = "") =>
              \A j \in DOMAIN pResults : pResults[j] /= EntryOfGroup(k)
    /\ Len(pResults) =
          Cardinality({k \in DOMAIN pGroups :
                          ~Failed(k) /\ EntryOfGroup(k).school /= ""})

C29_Witness ==
    /\ pPc = "returned"
    /\ Len(pGroups) = 2
    /\ ~Failed(1) /\ EntryOfGroup(1).school = "" /\ EntryOfGroup(1).major = "CS"
    /\ ~Failed(2)
    /\ Len(pResults) = 1
    /\ pResults[1] = EntryOfGroup(2)

----------------------------------------------------------------------------
(* Further properties of scrape_new_data_only (SpecIncr) *)

C30_SkippedPageFrame ==
    (Len(iLog') = Len(iLog) + 1 /\ EmptyOrFailed(iLog'[Len(iLog')])) =>
        /\ iOld' = iOld
        /\ iResults' = iResults
        /\ iPage' = iPage + 1
        /\ iPc' = iPc

C30_SkippedPagesUncounted ==
    /\ iPc \in {"loop", "returned"} => iOld = StaleRun(iLog)
    /\ (iPc = "returned" /\ iLog /= <<>>
          /\ \A k \in DOMAIN iLog : EmptyOrFailed(iLog[k])) =>
            Len(iLog) = iMaxPages /\ iPage = iMaxPages + 1

----------------------------------------------------------------------------
(* Properties of the checkpoints of scrape_data (SpecCheckpoint) *)

\* the checkpoints taken at page index n
CheckpointsAt(n) == {j \in DOMAIN cSaved : cSaved[j].index = n}

\* C27: for each k >= 1 such that the page index has advanced to 50k,
\* exactly one checkpoint was taken at index 50k, and it holds all the
\* entries accumulated from the pages before 50k.
C27_CheckpointEvery50 ==
    \A k \in 1..2 :
        cPage >= 50 * k =>
            /\ Cardinality(CheckpointsAt(50 * k)) = 1
            /\ \A j \in CheckpointsAt(50 * k) :
                  cSaved[j].data = VisitedEntries(SubSeq(cLog, 1, 50 * k - 1))

----------------------------------------------------------------------------
(* flask_app: POST /pull-data, POST /update-analysis and the pipeline
   thread run_data_pipeline (SpecApp) *)

\* Number of POST requests made to the application
MaxRequests == 2

\* What a failing child process wrote on stderr
Stderr == "Traceback"

\* The number of rows the load step added
NewCount == 2

NoException == [type |-> "", msg |-> ""]

\* A thread made by threading.Thread(target=run_data_pipeline) and started
NewRun == [pc |-> "begin", steps |-> <<>>, exc |-> NoException,
           noted |-> FALSE]

Finished(run) == run.pc \in {"done", "died"}

Unfinished(runs) == {i \in 1..Len(runs) : ~Finished(runs[i])}

\* pull_data: the answer for the value of scraping_status["is_running"] read
PullDataReplyAlwaysAccepts(is_running) ==
    [code |-> 202, body |-> <<"ok", TRUE>>]

PullDataReply(is_running) ==
    IF is_running
    THEN [code |-> 409, body |-> <<"busy", TRUE>>]
    ELSE [code |-> 202, body |-> <<"ok", TRUE>>]

\* update_analysis: the answer for the value of is_running read
UpdateAnalysisReply(is_running) ==
    IF is_running
    THEN [code |-> 409, body |-> <<"busy", TRUE>>]
    ELSE [code |-> 200, body |-> <<"ok", TRUE>>]

\* The entry of the request log: the route, the answer, the flag the handler
\* read and the pipeline threads not yet finished when it ran.
Reply(route, reply) ==
    [route |-> route, code |-> reply.code, body |-> reply.body,
     saw |-> aStatus.is_running, unfinished |-> Cardinality(Unfinished(aRuns))]

\* POST /pull-data: 409 when the flag is set, else a daemon thread is
\* started on run_data_pipeline and 202 is returned.  The handler does not
\* write scraping_status; the thread sets is_running when it gets to run.
PullData ==
    /\ Len(aReplies) < MaxRequests
    /\ \E reply \in {PullDataReply(aStatus.is_running)} :
         /\ aReplies' = Append(aReplies, Reply("/pull-data", reply))
         /\ aRuns' = IF reply.code = 202 THEN Append(aRuns, NewRun) ELSE aRuns
    /\ UNCHANGED <<aScraper, aStatus>>
    /\ UNCHANGED <<fvars, pvars, cvars, ivars, rvars>>

\* POST /update-analysis
UpdateAnalysis ==
    /\ Len(aReplies) < MaxRequests
    /\ aReplies' = Append(aReplies,
                     Reply("/update-analysis",
                           UpdateAnalysisReply(aStatus.is_running)))
    /\ UNCHANGED <<aScraper, aStatus, aRuns>>
    /\ UNCHANGED <<fvars, pvars, cvars, ivars, rvars>>

\* run_data_pipeline, first three statements of the try block, and the
\* choice between the injected scraper and the four steps
RunBegin ==
    \E i \in 1..Len(aRuns) :
      /\ aRuns[i].pc = "begin"
      /\ aStatus' = [aStatus EXCEPT !.is_running = TRUE, !.error = None,
                                    !.progress = "Starting data pipeline..."]
      /\ aRuns' = [aRuns EXCEPT ![i].pc = IF aScraper /= "none" THEN "test"
                                          ELSE "scrape"]
      /\ UNCHANGED <<aScraper, aReplies>>
      /\ UNCHANGED <<fvars, pvars, cvars, ivars, rvars>>

\* What flask_app.scraper.scrape() raises
ScraperRaises(scraper) ==
    IF scraper = "RuntimeError"
    THEN [type |-> "RuntimeError", msg |-> "Scraper failed"]
    ELSE IF scraper = "AttributeError"
    THEN [type |-> "AttributeError", msg |-> "object has no attribute 'scrape'"]
    ELSE NoException

\* handle_test_scraper: scrape() returns and the status is completed, or
\* its AttributeError or RuntimeError is raised again.
RunTestScraper ==
    \E i \in 1..Len(aRuns) :
      /\ aRuns[i].pc = "test"
      /\ \E exc \in {ScraperRaises(aScraper)} :
           IF exc = NoException
           THEN /\ aStatus' = [aStatus EXCEPT
                                 !.progress = "Complete! Test data loaded",
                                 !.last_update = "now"]
                /\ aRuns' = [aRuns EXCEPT ![i].pc = "finally"]
           ELSE /\ aStatus' = aStatus
                /\ aRuns' = [aRuns EXCEPT ![i].pc = "except", ![i].exc = exc]
      /\ UNCHANGED <<aScraper, aReplies>>
      /\ UNCHANGED <<fvars, pvars, cvars, ivars, rvars>>

Steps == <<"scrape", "clean", "llm", "load">>

\* What a step can do.  scrape, clean, llm: the child exits with 0 ("ok";
\* for scrape also "nonew", exit 0 with "No new data" on stdout) or with
\* another code ("fail"); llm: the child exits with 0 and writing its
\* output file fails ("ioerror").  load: the rows are loaded ("ok"), the
\* loader reports failure ("fail"), or get_db_connection returns None
\* ("noconn").
StepOutcomes(step) ==
    CASE step = "scrape" -> {"ok", "nonew", "fail"}
      [] step = "clean" -> {"ok", "fail"}
      [] step = "llm" -> {"ok", "fail", "ioerror"}
      [] step = "load" -> {"ok", "fail", "noconn"}

StepProgress(step) ==
    CASE step = "scrape" -> "Step 1/4: Scraping new data..."
      [] step = "clean" -> "Step 2/4: Cleaning new data..."
      [] step = "llm" -> "Step 3/4: LLM standardization..."
      [] step = "load" -> "Step 4/4: Loading new data into database..."

FailureText(step) ==
    CASE step = "scrape" -> "Scraping failed: " \o Stderr
      [] step = "clean" -> "Cleaning failed: " \o Stderr
      [] step = "llm" -> "LLM processing failed: " \o Stderr
      [] step = "load" -> "Database loading error: Failed to load new data"

\* The exception a step leaves with
StepRaises(step, outcome) ==
    CASE outcome = "fail" -> [type |-> "RuntimeError", msg |-> FailureText(step)]
      [] outcome = "ioerror" -> [type |-> "IOError", msg |-> "Permission denied"]
      [] outcome = "noconn" ->
            [type |-> "AttributeError",
             msg |-> "'NoneType' object has no attribute 'cursor'"]
      [] OTHER -> NoException

\* process_pipeline_steps: where the thread goes after a step
NextStepDespiteFailure(step, outcome) ==
    IF outcome = "nonew" \/ step = "load" THEN "finally"
    ELSE Steps[(CHOOSE k \in DOMAIN Steps : Steps[k] = step) + 1]

NextStep(step, outcome) ==
    IF StepRaises(step, outcome) /= NoException THEN "except"
    ELSE IF outcome = "nonew" \/ step = "load" THEN "finally"
    ELSE Steps[(CHOOSE k \in DOMAIN Steps : Steps[k] = step) + 1]

\* What a step writes to scraping_status
StepStatus(status, step, outcome) ==
    IF outcome = "nonew"
    THEN [status EXCEPT !.progress = "No new data available",
                        !.is_running = FALSE, !.last_update = "now"]
    ELSE IF step = "load" /\ outcome = "ok"
    THEN [status EXCEPT
            !.progress = "Complete! Added " \o ToString(NewCount)
                             \o " new records",
            !.last_update = "now"]
    ELSE [status EXCEPT !.progress = StepProgress(step)]

\* run_scraper_step, run_cleaner_step, run_llm_step, or the load step of
\* process_pipeline_steps
RunStep ==
    \E i \in 1..Len(aRuns) :
      /\ \E k \in DOMAIN Steps : aRuns[i].pc = Steps[k]
      /\ \E outcome \in StepOutcomes(aRuns[i].pc) :
           /\ aStatus' = StepStatus(aStatus, aRuns[i].pc, outcome)
           /\ aRuns' = [aRuns EXCEPT
                 ![i].pc = NextStep(aRuns[i].pc, outcome),
                 ![i].steps = Append(@, [name |-> aRuns[i].pc,
                                         outcome |-> outcome]),
                 ![i].exc = StepRaises(aRuns[i].pc, outcome)]
      /\ UNCHANGED <<aScraper, aReplies>>
      /\ UNCHANGED <<fvars, pvars, cvars, ivars, rvars>>

\* except (RuntimeError, IOError, subprocess.SubprocessError)
CaughtByPipeline(type) == type \in {"RuntimeError", "IOError", "SubprocessError"}

\* The except clause of run_data_pipeline: a caught exception is written to
\* error and progress; any other passes through to the finally clause.
RunExcept ==
    \E i \in 1..Len(aRuns) :
      /\ aRuns[i].pc = "except"
      /\ IF CaughtByPipeline(aRuns[i].exc.type)
         THEN /\ aStatus' = [aStatus EXCEPT
                               !.error = aRuns[i].exc.msg,
                               !.progress = "Error: " \o aRuns[i].exc.msg]
              /\ aRuns' = [aRuns EXCEPT ![i].pc = "finally",
                                        ![i].noted = TRUE]
         ELSE /\ aStatus' = aStatus
              /\ aRuns' = [aRuns EXCEPT ![i].pc = "finally"]
      /\ UNCHANGED <<aScraper, aReplies>>
      /\ UNCHANGED <<fvars, pvars, cvars, ivars, rvars>>

\* The finally clause; the thread then ends, by returning or with the
\* exception nobody caught.
RunFinally ==
    \E i \in 1..Len(aRuns) :
      /\ aRuns[i].pc = "finally"
      /\ aStatus' = [aStatus EXCEPT !.is_running = FALSE]
      /\ aRuns' = [aRuns EXCEPT
            ![i].pc = IF aRuns[i].exc /= NoException /\ ~aRuns[i].noted
                      THEN "died" ELSE "done"]
      /\ UNCHANGED <<aScraper, aReplies>>
      /\ UNCHANGED <<fvars, pvars, cvars, ivars, rvars>>

InitApp ==
    /\ FetchIdle /\ ParseIdle /\ CrawlIdle /\ IncrIdle /\ RobotsIdle
    \* flask_app.scraper: no injected scraper, or an injected object whose
    \* scrape() returns, raises RuntimeError, or raises AttributeError (an
    \* object without a usable scrape method).
    /\ aScraper \in {"none", "ok", "RuntimeError", "AttributeError"}
    /\ aStatus = InitialStatus
    /\ aRuns = <<>>
    /\ aReplies = <<>>

NextApp ==
    \/ PullData
    \/ UpdateAnalysis
    \/ RunBegin
    \/ RunTestScraper
    \/ RunStep
    \/ RunExcept
    \/ RunFinally

SpecApp == InitApp /\ [][NextApp]_vars

----------------------------------------------------------------------------
(* Properties of the construction of the scraper (SpecScraper) *)

\* C24: constructing the scraper runs the robots check once and completes
\* whether the check reports allowed, reports disallowed, or fails while
\* reading the policy: construction never raises, and the crawl of a
\* constructed scraper proceeds whatever the check returned.
C24_RobotsAdvisory ==
    /\ rPc /= "raised"
    /\ rPc = "new" => rChecks = 0 /\ ENABLED Construct
    /\ rPc = "constructed" =>
          /\ rChecks = 1
          /\ cPc = "returned" \/ ENABLED (ScraperCrawlPage \/ ScraperCrawlReturn)

----------------------------------------------------------------------------
(* Properties of the Flask application (SpecApp) *)

IsPull(e) == e.route = "/pull-data"

IsUpdate(e) == e.route = "/update-analysis"

Busy409(e) == e.code = 409 /\ e.body = <<"busy", TRUE>>

Accepted(e) == IsPull(e) /\ e.code = 202

AcceptedCount == Cardinality({k \in 1..Len(aReplies) : Accepted(aReplies[k])})

C21_Answers ==
    /\ \A k \in 1..Len(aReplies) :
         \E e \in {aReplies[k]} :
           /\ e.saw => Busy409(e)
           /\ IsPull(e) /\ ~e.saw => e.code = 202 /\ e.body = <<"ok", TRUE>>
           /\ IsUpdate(e) /\ ~e.saw => e.code = 200 /\ e.body = <<"ok", TRUE>>
    /\ Len(aRuns) = Cardinality({k \in 1..Len(aReplies) :
                                   IsPull(aReplies[k]) /\ ~aReplies[k].saw})

C21_RequestFrame ==
    Len(aReplies') = Len(aReplies) + 1 =>
      \E e \in {aReplies'[Len(aReplies')]} :
        /\ e.saw = aStatus.is_running
        /\ IsUpdate(e) => aStatus' = aStatus /\ aRuns' = aRuns
        /\ IsPull(e) /\ e.saw => aRuns' = aRuns
        /\ IsPull(e) /\ ~e.saw => aRuns' = Append(aRuns, NewRun)

\* C21: POST /pull-data answers 409 {"busy": true} and starts no pipeline
\* when is_running is true, and otherwise answers 202 {"ok": true} and
\* starts exactly one pipeline run; POST /update-analysis answers 409
\* {"busy": true} when is_running is true and 200 {"ok": true} otherwise,
\* and leaves scraping_status and the pipeline runs as they were.
C21_BusyGate == [](C21_Answers) /\ [][C21_RequestFrame]_vars

\* A pipeline was accepted and began, a second /pull-data was refused and
\* started nothing.
C21_Witness ==
    /\ Len(aReplies) = 2
    /\ Accepted(aReplies[1])
    /\ IsPull(aReplies[2]) /\ Busy409(aReplies[2])
    /\ Len(aRuns) = 1

\* C22: at most one pipeline thread is unfinished at any time, and a
\* /pull-data request made while an accepted pipeline has not finished is
\* answered 409 (and so starts nothing).
C22_SinglePipeline ==
    /\ Cardinality(Unfinished(aRuns)) <= 1
    /\ \A k \in 1..Len(aReplies) :
         IsPull(aReplies[k]) /\ aReplies[k].unfinished > 0
            => Busy409(aReplies[k])

\* The run started by the last accepted request, when that request found
\* every earlier pipeline finished.
LastStartedAlone ==
    \E k \in 1..Len(aReplies) :
      /\ Accepted(aReplies[k])
      /\ aReplies[k].unfinished = 0
      /\ \A j \in (k + 1)..Len(aReplies) : ~Accepted(aReplies[j])

\* C23: a finished run leaves is_running false whatever its outcome; when
\* a step or the injected scraper failed, error holds the failure message
\* and progress is "Error: " followed by it; and a run started after the
\* earlier ones finished has reset error to None once it has begun.
C23_FailureRecorded ==
    /\ Unfinished(aRuns) = {} => ~aStatus.is_running
    /\ Len(aRuns) = 1 /\ Finished(aRuns[1]) /\ aRuns[1].exc /= NoException
          => /\ aStatus.error = aRuns[1].exc.msg
             /\ aStatus.progress = "Error: " \o aRuns[1].exc.msg
    /\ \A i \in 1..Len(aRuns) :
         (/\ i = Len(aRuns) /\ LastStartedAlone
          /\ aRuns[i].pc /= "begin" /\ aRuns[i].exc = NoException)
            => aStatus.error = None

ExitedZero(outcome) == outcome \in {"ok", "nonew", "ioerror"}

\* C26: the steps a run has executed are an initial part of scrape, clean,
\* llm, load, in that order and each once; every step before the last one
\* executed ended with exit code 0 and with new data; and a run whose
\* scraper reported "No new data" executed nothing else and recorded no
\* error (scraping_status.error is None when it ran alone).
C26_StepsInOrder ==
    \A i \in 1..Len(aRuns) :
      \E steps \in {aRuns[i].steps} :
        /\ Len(steps) <= Len(Steps)
        /\ \A k \in 1..Len(steps) : steps[k].name = Steps[k]
        /\ \A k \in 1..(Len(steps) - 1) : steps[k].outcome = "ok"
        /\ \A k \in 1..Len(steps) : ExitedZero(steps[k].outcome)
              \/ (k = Len(steps) /\ aRuns[i].pc \in {"except", "finally", "done", "died"})
        /\ Len(steps) >= 1 /\ steps[1].outcome = "nonew"
              => /\ Len(steps) = 1
                 /\ aRuns[i].exc = NoException /\ ~aRuns[i].noted
                 /\ aRuns[i].pc \in {"finally", "done"}
                 /\ Len(aRuns) = 1 => aStatus.error = None

\* One run went through the four steps, another ended at "No new data".
C26_Witness ==
    /\ \E i \in 1..Len(aRuns) :
         Len(aRuns[i].steps) = 4 /\ aRuns[i].pc = "done"
    /\ \E i \in 1..Len(aRuns) :
         /\ Len(aRuns[i].steps) = 1 /\ aRuns[i].steps[1].outcome = "nonew"
         /\ aRuns[i].pc = "done"

====
